---- MODULE Spec2Model ----
(***************************************************************************)
(* Model of trans/checks/same.py (SameCheck, the "not translated" check).  *)
(*                                                                         *)
(* A Python string is a sequence of one-character strings, so that         *)
(* lowering, stripping, searching and the regular expressions are computed *)
(* character by character, as the interpreter computes them.               *)
(***************************************************************************)
EXTENDS Integers, Sequences, FiniteSets, TLC

(***************************************************************************)
(* Characters                                                              *)
(***************************************************************************)
UpperSeq == <<"A","B","C","D","E","F","G","H","I","J","K","L","M",
              "N","O","P","Q","R","S","T","U","V","W","X","Y","Z">>

LowerSeq == <<"a","b","c","d","e","f","g","h","i","j","k","l","m",
              "n","o","p","q","r","s","t","u","v","w","x","y","z">>

UpperChars == {UpperSeq[i] : i \in 1..Len(UpperSeq)}

LowerChars == {LowerSeq[i] : i \in 1..Len(LowerSeq)}

\* [A-Z] under re.IGNORECASE
Letters == UpperChars \cup LowerChars

\* \d
Digits == {"0","1","2","3","4","5","6","7","8","9"}

\* [A-Z0-9] under re.IGNORECASE
Alnum == Letters \cup Digits

\* [A-Z0-9-] under re.IGNORECASE
LabelChars == Alnum \cup {"-"}

\* [A-Za-z0-9_-]
HashChars == Alnum \cup {"_", "-"}

\* \w (without re.UNICODE)
WordChars == Alnum \cup {"_"}

\* the complement of \S (the vertical tab has no TLA+ literal and is not in
\* any input of the model)
Whitespace == {" ", "\t", "\n", "\r", "\f"}

\* the argument of source.strip(...) in should_ignore
NUMERIC_STRIP == Digits \cup {":", "/", ",", "."}

\* the argument of stripped.strip(...) in strip_string (the grave accent
\* cannot be written in a TLA+ string; no input of the model contains it)
BOUNDARY_STRIP ==
    {" ", ",", ".", "/", "<", ">", "?", ";", "'", "\\", ":", "\"", "|", "[",
     "]", "{", "}", "~", "!", "@", "#", "$", "%", "^", "&", "*", "(",
     ")", "-", "=", "_", "+", "\n", "\r"} \cup Digits

(***************************************************************************)
(* Python string primitives                                                *)
(***************************************************************************)
\* F applied to the value of v, which is computed once (Python passes
\* values: an argument is evaluated before the call, not at each use)
Once(F(_), v) == CHOOSE y \in {F(x) : x \in {v}} : TRUE

\* s[i:j] with 1-based inclusive bounds; empty when j < i
Slice(s, i, j) == IF j < i THEN <<>> ELSE SubSeq(s, i, j)

\* one character of str.lower()
LowerChar(c) ==
    IF c \in UpperChars
    THEN LowerSeq[CHOOSE i \in 1..Len(UpperSeq) : UpperSeq[i] = c]
    ELSE c

\* str.lower()
Lower(str) == Once(LAMBDA s : [i \in 1..Len(s) |-> LowerChar(s[i])], str)

\* str.isupper(): at least one cased character and no lower-case one
IsUpper(str) ==
    Once(LAMBDA s : /\ \E i \in 1..Len(s) : s[i] \in UpperChars
                    /\ \A i \in 1..Len(s) : s[i] \notin LowerChars,
         str)

\* str.strip(chars)
Strip(str, chars) ==
    Once(LAMBDA s :
             LET keep == {i \in 1..Len(s) : s[i] \notin chars}
                 kept(i) == i \in 1..Len(s) /\ s[i] \notin chars
                 lo == CHOOSE i \in 1..Len(s) :
                           kept(i) /\ \A j \in 1..(i - 1) : ~kept(j)
                 hi == CHOOSE i \in 1..Len(s) :
                           kept(i) /\ \A j \in (i + 1)..Len(s) : ~kept(j)
             IN  IF keep = {} THEN <<>> ELSE SubSeq(s, lo, hi),
         str)

\* s[i:].startswith(sub), i 1-based
StartsAt(s, i, sub) ==
    /\ i + Len(sub) - 1 <= Len(s)
    /\ \A k \in 1..Len(sub) : s[i + k - 1] = sub[k]

\* sub in s
Contains(str, sub) ==
    Once(LAMBDA s : \E i \in 1..(Len(s) + 1) : StartsAt(s, i, sub), str)

\* str.replace(old, new): leftmost, non-overlapping occurrences
Replace(str, old, new) ==
    Once(LAMBDA s :
             LET hit(i, j) == /\ StartsAt(s, j, old)
                              /\ \A k \in i..(j - 1) : ~StartsAt(s, k, old)
                 f[i \in 1..(Len(s) + 1)] ==
                     IF \A j \in i..Len(s) : ~StartsAt(s, j, old)
                     THEN Slice(s, i, Len(s))
                     ELSE LET j == CHOOSE j \in i..Len(s) : hit(i, j)
                          IN  Slice(s, i, j - 1) \o new \o f[j + Len(old)]
             IN  f[1],
         str)

\* regex.sub('', s) for a pattern that never matches the empty string:
\* MatchEnd(s, i) is the index of the last character of the match that
\* starts at i, or 0 when no match starts at i
RemoveAll(MatchEnd(_, _), str) ==
    Once(LAMBDA s :
             LET hit(i, j) == /\ MatchEnd(s, j) # 0
                              /\ \A k \in i..(j - 1) : MatchEnd(s, k) = 0
                 f[i \in 1..(Len(s) + 1)] ==
                     IF \A j \in i..Len(s) : MatchEnd(s, j) = 0
                     THEN Slice(s, i, Len(s))
                     ELSE LET j == CHOOSE j \in i..Len(s) : hit(i, j)
                          IN  Slice(s, i, j - 1) \o f[MatchEnd(s, j) + 1]
             IN  f[1],
         str)

\* the index of the last character of the maximal run of characters of
\* `chars` that starts at i (i - 1 when the run is empty), at most `most` long
RunEnd(s, i, chars, most) ==
    LET limit == IF Len(s) < i + most - 1 THEN Len(s) ELSE i + most - 1
    IN  CHOOSE j \in (i - 1)..limit :
            /\ \A k \in i..j : s[k] \in chars
            /\ j = limit \/ s[j + 1] \notin chars

(***************************************************************************)
(* Pattern library                                                         *)
(***************************************************************************)
\* [A-Z0-9](?:[A-Z0-9-]{0,61}[A-Z0-9])?\. matched at i: the index of the
\* dot that ends the label, or 0.  No label character is a dot, so the label
\* is the whole run of label characters before the dot.
LabelEnd(s, i) ==
    LET r == RunEnd(s, i, LabelChars, Len(s))
    IN  IF /\ r >= i
           /\ r - i + 1 <= 63
           /\ s[i] \in Alnum
           /\ s[r] \in Alnum
           /\ r + 1 <= Len(s)
           /\ s[r + 1] = "."
        THEN r + 1
        ELSE 0

\* \.? after a match that ends at e
OptionalDot(s, e) == IF e + 1 <= Len(s) /\ s[e + 1] = "." THEN e + 1 ELSE e

\* (?:[A-Z]{2,6}\.?|[A-Z0-9-]{2,}\.?) matched at p, where nothing follows it
\* in the pattern: the first alternative that matches, each one greedy
TldEnd(s, p) ==
    LET a == RunEnd(s, p, Letters, 6)
        b == RunEnd(s, p, LabelChars, Len(s))
    IN  IF a - p + 1 >= 2 THEN OptionalDot(s, a)
        ELSE IF b - p + 1 >= 2 THEN OptionalDot(s, b)
        ELSE 0

\* the rest of DOMAIN_RE at p, after at least one label: (label\.)* is
\* greedy, so one more label is tried before the last part of the name
RECURSIVE DomainTail(_, _)
DomainTail(s, p) ==
    LET d == LabelEnd(s, p)
        more == IF d = 0 THEN 0 ELSE DomainTail(s, d + 1)
    IN  IF more # 0 THEN more ELSE TldEnd(s, p)

\* DOMAIN_RE.match(s, i): the index of the last character matched, or 0
DOMAIN_RE(s, i) ==
    LET d == LabelEnd(s, i)
    IN  IF d = 0 THEN 0 ELSE DomainTail(s, d + 1)

\* HASH_RE.match(s, i)
HASH_RE(s, i) ==
    IF s[i] = "#" THEN RunEnd(s, i + 1, HashChars, Len(s)) ELSE 0

\* whether d, whole, is a domain name of URL_RE (lines 198-199)
UrlDomain(d) ==
    LET f[p \in 1..(Len(d) + 1)] ==
            LET e == IF p > Len(d) THEN 0 ELSE LabelEnd(d, p)
                n == IF Len(d) >= p /\ d[Len(d)] = "." THEN Len(d) - 1
                     ELSE Len(d)
            IN  \/ e # 0 /\ f[e + 1]
                \/ /\ p > 1
                   /\ n - p + 1 >= 2
                   /\ \A k \in p..n : d[k] \in LabelChars
    IN  f[1]

\* whether d, whole, is \d{1,3}\.\d{1,3}\.\d{1,3}\.\d{1,3}
UrlIp(d) ==
    LET f[p \in 1..(Len(d) + 1), left \in 1..4] ==
            LET r == IF p > Len(d) THEN 0 ELSE RunEnd(d, p, Digits, 3)
            IN  \E e \in p..r :
                    IF left = 1 THEN e = Len(d)
                    ELSE /\ e + 2 <= Len(d)
                         /\ d[e + 1] = "."
                         /\ f[e + 2, left - 1]
    IN  f[1, 4]

\* whether r, whole, is (?::\d+)?(?:/?|[/?]\S+)
UrlPortPath(r) ==
    LET path(p) ==
            \/ p > Len(r)
            \/ p = Len(r) /\ r[p] = "/"
            \/ /\ p < Len(r)
               /\ r[p] \in {"/", "?"}
               /\ \A k \in (p + 1)..Len(r) : r[k] \notin Whitespace
        e == RunEnd(r, 2, Digits, Len(r))
    IN  \/ path(1)
        \/ Len(r) >= 2 /\ r[1] = ":" /\ e >= 2 /\ path(e + 1)

\* whether t, whole, is matched by the body of URL_RE between ^ and $
UrlBody(t) ==
    LET l == Lower(t)
        schemes == {<<"h","t","t","p",":","/","/">>,
                    <<"h","t","t","p","s",":","/","/">>,
                    <<"f","t","p",":","/","/">>,
                    <<"f","t","p","s",":","/","/">>}
    IN  \E sch \in schemes :
            /\ StartsAt(l, 1, sch)
            /\ \E h \in (Len(sch) + 1)..Len(t) :
                   LET host == SubSeq(l, Len(sch) + 1, h)
                   IN  /\ \/ UrlDomain(host)
                          \/ host = <<"l","o","c","a","l","h","o","s","t">>
                          \/ UrlIp(host)
                       /\ UrlPortPath(Slice(t, h + 1, Len(t)))

\* URL_RE.match(s, i): the pattern starts with ^ and ends with $ and is
\* compiled without re.MULTILINE, so it matches at the start of the string
\* only, and up to its end or up to a newline that ends the string
URL_RE(s, i) ==
    IF i # 1 THEN 0
    ELSE IF UrlBody(s) THEN Len(s)
    ELSE IF s[Len(s)] = "\n" /\ UrlBody(Slice(s, 1, Len(s) - 1))
         THEN Len(s) - 1
    ELSE 0

\* the characters of an atom of the local part of an e-mail address
AtomChars ==
    Alnum \cup {"!", "#", "$", "%", "&", "'", "*", "+", "/", "=", "?", "^",
                "_", "{", "|", "}", "~", "-"}

\* the rest of an e-mail domain at p, after at least one label: greedy
\* labels, then a top-level name of 2 to 6 letters
RECURSIVE EmailDomainTail(_, _)
EmailDomainTail(s, p) ==
    LET d == LabelEnd(s, p)
        more == IF d = 0 THEN 0 ELSE EmailDomainTail(s, d + 1)
        a == RunEnd(s, p, Letters, 6)
    IN  IF more # 0 THEN more
        ELSE IF a - p + 1 >= 2 THEN a
        ELSE 0

\* email_re.match(s, i): atoms joined by single dots, "@", a domain name
email_re(s, i) ==
    LET r == RunEnd(s, i, AtomChars \cup {"."}, Len(s))
        d == IF r + 2 <= Len(s) THEN LabelEnd(s, r + 2) ELSE 0
    IN  IF /\ r >= i
           /\ s[i] # "."
           /\ s[r] # "."
           /\ \A k \in i..(r - 1) : ~(s[k] = "." /\ s[k + 1] = ".")
           /\ r + 1 <= Len(s)
           /\ s[r + 1] = "@"
           /\ d # 0
        THEN EmailDomainTail(s, d + 1)
        ELSE 0

\* the conversion that ends a printf placeholder: a letter or %
ConversionChars == Letters \cup {"%"}

\* C_PRINTF_MATCH.match(s, i): % and a conversion
C_PRINTF_MATCH(s, i) ==
    IF s[i] = "%" /\ i + 1 <= Len(s) /\ s[i + 1] \in ConversionChars
    THEN i + 1
    ELSE 0

\* PHP_PRINTF_MATCH.match(s, i): %, an optional position such as 1$, and a
\* conversion
PHP_PRINTF_MATCH(s, i) ==
    LET r == RunEnd(s, i + 1, Digits, Len(s))
    IN  IF s[i] # "%" THEN 0
        ELSE IF /\ r >= i + 1
                /\ r + 2 <= Len(s)
                /\ s[r + 1] = "$"
                /\ s[r + 2] \in ConversionChars
             THEN r + 2
        ELSE C_PRINTF_MATCH(s, i)

\* PYTHON_PRINTF_MATCH.match(s, i): %, an optional key such as (name), and a
\* conversion
PYTHON_PRINTF_MATCH(s, i) ==
    LET r == RunEnd(s, i + 2, WordChars, Len(s))
    IN  IF s[i] # "%" THEN 0
        ELSE IF /\ i + 1 <= Len(s)
                /\ s[i + 1] = "("
                /\ r >= i + 2
                /\ r + 2 <= Len(s)
                /\ s[r + 1] = ")"
                /\ s[r + 2] \in ConversionChars
             THEN r + 2
        ELSE C_PRINTF_MATCH(s, i)

(***************************************************************************)
(* Blacklist table                                                         *)
(***************************************************************************)
SAME_BLACKLIST ==
    {<<"a","c","c","e","l","e","r","a","t","o","r">>,
     <<"a","c","t","i","o","n">>, <<"a","c","t","i","o","n","s">>,
     <<"a","c","t","i","v","e">>, <<"a","l","a","r","m">>,
     <<"a","m","a","z","o","n">>, <<"a","t","o","m">>,
     <<"a","u","d","i","o">>, <<"a","u","t","o">>,
     <<"a","v","a","t","a","r">>, <<"b","i","t","c","o","i","n">>,
     <<"b","l","o","g">>, <<"b","l","u","e","t","o","o","t","h">>,
     <<"b","z","i","p","2">>, <<"c","h","a","t">>, <<"c","m">>,
     <<"c","o","p","y","r","i","g","h","t">>, <<"c","s","v">>,
     <<"c","v","s">>, <<"d","a","t","a">>, <<"d","b","m">>,
     <<"d","e","s","c","r","i","p","t","i","o","n">>, <<"d","m">>,
     <<"d","o","w","n","l","o","a","d">>, <<"d","p","i">>,
     <<"d","u","m","m","y">>, <<"e","-","m","a","i","l">>, <<"e","i","b">>,
     <<"e","m","a","i","l">>, <<"e","s","p","e","r","a","n","t","o">>,
     <<"e","x","p","e","r","t">>, <<"e","x","p","o","r","t">>,
     <<"f","a","x">>, <<"f","e","e","d","s">>, <<"f","i","l","t","e","r">>,
     <<"f","i","r","m","w","a","r","e">>, <<"f","l","a","s","h">>,
     <<"f","l","a","t","t","r">>, <<"f","u","l","l","t","e","x","t">>,
     <<"g","a","m","m","u">>, <<"g","e","n","e","r","a","l">>,
     <<"g","e","t","t","e","x","t">>, <<"g","o","o","g","l","e">>,
     <<"g","i","b">>, <<"g","i","t">>, <<"g","t","k">>, <<"g","z","i","p">>,
     <<"h","e","a","d","s","e","t">>, <<"h","a","r","d","w","a","r","e">>,
     <<"h","e","l","p">>, <<"h","o","r","i","z","o","n","t","a","l">>,
     <<"i","d">>, <<"i","n">>, <<"i","r","c">>, <<"i","r","d","a">>,
     <<"i","m","e","i">>, <<"i","m","p","o","r","t">>, <<"i","n","f","o">>,
     <<"i","n","f","o","r","m","a","t","i","o","n">>, <<"i","s","b","n">>,
     <<"j","a","b","b","e","r">>, <<"k","i","b">>, <<"k","m">>,
     <<"l","a","t","e","x">>, <<"l","a","y","o","u","t">>,
     <<"l","i","n","u","x">>,
     <<"l","i","t","h","i","u","m"," ","i","o","n">>,
     <<"l","i","t","h","i","u","m"," ","p","o","l","y","m","e","r">>,
     <<"l","t","r">>, <<"m","a">>, <<"m","a","h">>,
     <<"m","a","i","l","b","o","x">>, <<"m","a","i","l","d","i","r">>,
     <<"m","e","d","i","a">>, <<"m","o","d","e","l">>,
     <<"m","o","n","i","t","o","r">>, <<"m","o","t","i","f">>,
     <<"m","i","b">>, <<"m","m">>, <<"m","v">>, <<"n","/","a">>,
     <<"n","a","m","e">>, <<"n","i","m","h">>, <<"n","o","r","m","a","l">>,
     <<"n","u","l","l">>, <<"o","k">>, <<"o","n","l","i","n","e">>,
     <<"o","p","e","n"," ","d","o","c","u","m","e","n","t">>,
     <<"o","p","e","r","a","t","o","r">>,
     <<"o","r","i","e","n","t","a","t","i","o","n">>,
     <<"p","a","g","e","r">>, <<"p","a","y","p","a","l">>, <<"p","d","f">>,
     <<"p","e","r","s","o","n","a","l">>, <<"p","i","b">>,
     <<"p","o","r","t">>, <<"p","o","s","i","t","i","o","n">>,
     <<"p","y","t","h","o","n","-","g","a","m","m","u">>,
     <<"p","r","o","g","r","a","m">>, <<"p","r","o","x","y">>, <<"p","t">>,
     <<"p","x">>, <<"r","e","b","a","s","e">>, <<"r","e","s","e","t">>,
     <<"r","o","a","d","m","a","p">>, <<"r","s","s">>, <<"r","t","l">>,
     <<"s","c","r","i","p","t">>, <<"s","e","r","v","e","r">>,
     <<"s","i","m">>, <<"s","m","s","c">>,
     <<"s","o","f","t","w","a","r","e">>, <<"s","q","l">>,
     <<"s","t","a","n","d","a","r","d">>, <<"s","t","a","r","t">>,
     <<"s","t","a","t","u","s">>, <<"s","t","o","p">>,
     <<"s","t","y","l","e">>,
     <<"s","y","n","d","i","c","a","t","i","o","n">>,
     <<"s","y","s","t","e","m">>, <<"t","e","x","t">>, <<"t","i","b">>,
     <<"u","k","o","l","o","v","n","i","k">>,
     <<"u","n","i","c","o","d","e">>,
     <<"v","c","a","l","e","n","d","a","r">>, <<"v","c","a","r","d">>,
     <<"v","e","r","s","i","o","n">>, <<"v","e","r","t","i","c","a","l">>,
     <<"v","i","d","e","o">>, <<"w","a","m","m","u">>, <<"w","e","b">>,
     <<"w","e","b","l","a","t","e">>, <<"w","i","k","i">>,
     <<"w","i","n","d","o","w","s">>, <<"w","w","w">>, <<"x","m","l">>,
     <<"z","i","p">>, <<"j","a","n","u","a","r","y">>,
     <<"f","e","b","r","u","a","r","y">>, <<"m","a","r","c","h">>,
     <<"a","p","r","i","l">>, <<"m","a","y">>, <<"j","u","n","e">>,
     <<"j","u","l","y">>, <<"a","u","g","u","s","t">>,
     <<"s","e","p","t","e","m","b","e","r">>,
     <<"o","c","t","o","b","e","r">>, <<"n","o","v","e","m","b","e","r">>,
     <<"d","e","c","e","m","b","e","r">>, <<"j","a","n">>, <<"f","e","b">>,
     <<"m","a","r">>, <<"a","p","r">>, <<"j","u","n">>, <<"j","u","l">>,
     <<"a","u","g">>, <<"s","e","p">>, <<"o","c","t">>, <<"n","o","v">>,
     <<"d","e","c">>}

(***************************************************************************)
(* Stripping pipeline                                                      *)
(***************************************************************************)
FormatFlags == {"python-format", "php-format", "c-format"}

\* strip_format with the php pattern tried before the python pattern
strip_format_php_first(msg, flags) ==
    IF "php-format" \in flags THEN RemoveAll(PHP_PRINTF_MATCH, msg)
    ELSE IF "python-format" \in flags THEN RemoveAll(PYTHON_PRINTF_MATCH, msg)
    ELSE IF "c-format" \in flags THEN RemoveAll(C_PRINTF_MATCH, msg)
    ELSE msg

\* SameCheck.strip_format
strip_format(msg, flags) ==
    IF "python-format" \in flags THEN RemoveAll(PYTHON_PRINTF_MATCH, msg)
    ELSE IF "php-format" \in flags THEN RemoveAll(PHP_PRINTF_MATCH, msg)
    ELSE IF "c-format" \in flags THEN RemoveAll(C_PRINTF_MATCH, msg)
    ELSE msg

\* the four str.replace calls of strip_string, in their order
ReplaceEntities(msg) ==
    LET a == Replace(msg, <<"&","n","b","s","p",";">>, <<" ">>)
        b == Replace(a, <<"&","r","s","a","q","u","o",";">>, <<"\"">>)
        c == Replace(b, <<"&","l","d","q","u","o",";">>, <<"\"">>)
    IN  Replace(c, <<"&","r","d","q","u","o",";">>, <<"\"">>)

\* SameCheck.strip_string
strip_string(msg, flags) ==
    LET formatted == strip_format(msg, flags)
        noEmail == RemoveAll(email_re, formatted)
        noUrl == RemoveAll(URL_RE, noEmail)
        noHash == RemoveAll(HASH_RE, noUrl)
        noDomain == RemoveAll(DOMAIN_RE, noHash)
    IN  Strip(ReplaceEntities(noDomain), BOUNDARY_STRIP)

(***************************************************************************)
(* Cache slots, units                                                      *)
(***************************************************************************)
\* An optional boolean is a set of at most one boolean: None is the empty
\* set, the value get_cache returns for a slot nothing was stored in
None == {}

\* the optional boolean that holds b
Some(b) == {b}

\* the boolean an optional boolean other than None holds
ValueOf(opt) == CHOOSE b \in opt : TRUE

\* TargetCheck.get_cache(unit, cache_slot): the value last stored, or None
get_cache(c, cache_slot) == c[cache_slot]

\* TargetCheck.set_cache(unit, value, cache_slot)
set_cache(c, value, cache_slot) == [c EXCEPT ![cache_slot] = Some(value)]

\* TargetCheck.is_language(unit, vals)
is_language(unit, vals) == unit.language \in vals

(***************************************************************************)
(* Ignore-decision function and top-level predicate.  Each returns the     *)
(* value the method returns (ret), the cache it leaves (cache) and how     *)
(* often it called get_cache, set_cache and strip_string.                  *)
(***************************************************************************)
\* lines 291-293 of should_ignore
SpecialCase(source) ==
    \/ Len(Strip(source, NUMERIC_STRIP)) <= 1
    \/ Contains(Lower(source),
                <<"(","c",")"," ","c","o","p","y","r","i","g","h","t">>)
    \/ Contains(source, <<"©">>)

\* the ignore decision stated directly: a special case holds, or nothing or
\* a blacklisted word is left of the lower-cased source after stripping
Uncached(source, flags) ==
    \/ Len(Strip(source, NUMERIC_STRIP)) <= 1
    \/ Contains(Lower(source),
                <<"(","c",")"," ","c","o","p","y","r","i","g","h","t">>)
    \/ Contains(source, <<"©">>)
    \/ Once(LAMBDA residue : residue = <<>> \/ residue \in SAME_BLACKLIST,
            strip_string(Lower(source), flags))

\* should_ignore without the blacklist lookup
IgnoreDecision_no_blacklist(source, flags) ==
    LET decide(stripped) ==
            [result |-> stripped = <<>>, strips |-> 1]
    IN  IF SpecialCase(source)
        THEN [result |-> TRUE, strips |-> 0]
        ELSE Once(decide, strip_string(Lower(source), flags))

\* lines 287-306 of should_ignore: the result computed when nothing is cached
IgnoreDecision(source, flags) ==
    LET decide(stripped) ==
            [result |-> IF stripped = <<>> THEN TRUE
                        ELSE IF stripped \in SAME_BLACKLIST THEN TRUE
                        ELSE FALSE,
             strips |-> 1]
    IN  IF SpecialCase(source)
        THEN [result |-> TRUE, strips |-> 0]
        ELSE Once(decide, strip_string(Lower(source), flags))

\* should_ignore that returns its result without storing it
should_ignore_no_store(source, unit, c, cache_slot) ==
    LET cached == get_cache(c, cache_slot)
        keep(d) ==
            [ret |-> d.result, cache |-> c, gets |-> 1, sets |-> 0,
             strips |-> d.strips]
    IN  IF cached # None
        THEN [ret |-> ValueOf(cached), cache |-> c, gets |-> 1, sets |-> 0,
              strips |-> 0]
        ELSE Once(keep, IgnoreDecision(source, unit.flags))

\* should_ignore that computes and stores its result whatever the slot holds
should_ignore_no_cache(source, unit, c, cache_slot) ==
    LET store(d) ==
            [ret |-> d.result, cache |-> set_cache(c, d.result, cache_slot),
             gets |-> 0, sets |-> 1, strips |-> d.strips]
    IN  Once(store, IgnoreDecision(source, unit.flags))

\* SameCheck.should_ignore
should_ignore(source, unit, c, cache_slot) ==
    LET cached == get_cache(c, cache_slot)
        store(d) ==
            [ret |-> d.result, cache |-> set_cache(c, d.result, cache_slot),
             gets |-> 1, sets |-> 1, strips |-> d.strips]
    IN  IF cached # None
        THEN [ret |-> ValueOf(cached), cache |-> c, gets |-> 1, sets |-> 0,
              strips |-> 0]
        ELSE Once(store, IgnoreDecision(source, unit.flags))

\* check_single without the test for upper-case strings
check_single_no_upper(source, target, unit, c, cache_slot) ==
    LET quiet == [ret |-> FALSE, cache |-> c, gets |-> 0, sets |-> 0,
                  strips |-> 0]
        after(ign) == IF ign.ret THEN [ign EXCEPT !.ret = FALSE]
                      ELSE [ign EXCEPT !.ret = (source = target)]
    IN  IF is_language(unit, {"en"}) THEN quiet
        ELSE IF Len(source) <= 1 /\ Len(target) <= 1 THEN quiet
        ELSE Once(after, should_ignore(source, unit, c, cache_slot))

\* check_single that calls should_ignore before its other tests
check_single_ignore_first(source, target, unit, c, cache_slot) ==
    LET after(ign) ==
            IF is_language(unit, {"en"}) THEN [ign EXCEPT !.ret = FALSE]
            ELSE IF Len(source) <= 1 /\ Len(target) <= 1
                 THEN [ign EXCEPT !.ret = FALSE]
            ELSE IF IsUpper(source) /\ IsUpper(target)
                 THEN [ign EXCEPT !.ret = FALSE]
            ELSE IF ign.ret THEN [ign EXCEPT !.ret = FALSE]
            ELSE [ign EXCEPT !.ret = (source = target)]
    IN  Once(after, should_ignore(source, unit, c, cache_slot))

\* SameCheck.check_single
check_single(source, target, unit, c, cache_slot) ==
    LET quiet == [ret |-> FALSE, cache |-> c, gets |-> 0, sets |-> 0,
                  strips |-> 0]
        after(ign) == IF ign.ret THEN [ign EXCEPT !.ret = FALSE]
                      ELSE [ign EXCEPT !.ret = (source = target)]
    IN  IF is_language(unit, {"en"}) THEN quiet
        ELSE IF Len(source) <= 1 /\ Len(target) <= 1 THEN quiet
        ELSE IF IsUpper(source) /\ IsUpper(target) THEN quiet
        ELSE Once(after, should_ignore(source, unit, c, cache_slot))

(***************************************************************************)
(* Inputs                                                                  *)
(***************************************************************************)
Hello == <<"H","e","l","l","o">>

Web == <<"W","e","b">>

PercentS == <<"%","s">>

OK == <<"O","K">>

SAVE == <<"S","A","V","E">>

Acme == <<"©"," ","2","0","1","3"," ","A","c","m","e">>

Ratio == <<"1",":","4">>

LetterA == <<"a">>

Visit ==
    <<"v","i","s","i","t"," ","h","t","t","p",":","/","/","e","x","a","m","p",
      "l","e",".","c","o","m"," ","t","o","d","a","y">>

Bonjour == <<"B","o","n","j","o","u","r">>

Notice == <<"(","C",")"," ","C","o","p","y","r","i","g","h","t">>

LocalUrl ==
    <<"h","t","t","p",":","/","/","l","o","c","a","l","h","o","s","t","!">>

SiteUrl ==
    <<"h","t","t","p",":","/","/","e","x","a","m","p","l","e",".","c","o",
      "m">>

KeyedText == <<"a","%","#","(","k",")","s","b">>

PythonKey == <<"%","(","k",")","s">>

PhpPosition == <<"%","1","$","s">>

Entities ==
    <<"&","n","b","s","p",";","w","e","b","&","r","d","q","u","o",";">>

Mail == <<"m","a","i","l"," ","m","e","@","x",".","o","r","g">>

Channel == <<"#","w","e","b","l","a","t","e">>

VisitResidue == <<"v","i","s","i","t"," "," ","t","o","d","a","y">>

\* the source strings the checks are called with
Sources ==
    {Hello, Web, PercentS, OK, SAVE, Acme, Notice, Ratio, LetterA, Visit}

\* the second (plural) source string of a unit
PluralSources == {Hello}

\* the translations a source is checked against: itself, itself in lower
\* case, and another text
Targets(source) == {source, Lower(source), Bonjour}

Languages == {"en", "fr"}

Units == [language : Languages, flags : SUBSET FormatFlags]

\* cache slots are numbered from 0
MaxSlot == 1

Slots == 0..MaxSlot

\* the longest text made of the characters of Sigma
MaxLen == 3

Sigma == {"%", "s", "1", "$", "#", "."}

\* the texts strip_format and strip_string are called with
StripTexts ==
    {Lower(x) : x \in Sources}
        \cup {LocalUrl, SiteUrl, KeyedText, PythonKey, PhpPosition, Entities,
              Mail, Channel}
        \cup UNION {[1..n -> Sigma] : n \in 0..MaxLen}

\* how often strip_string is applied to its own result
MaxPasses == 2

\* the concurrent evaluations of should_ignore
NThreads == 2

Threads == 1..NThreads

(***************************************************************************)
(* State                                                                   *)
(***************************************************************************)
VARIABLES
    unit,      \* the translation unit under check
    sources,   \* its source strings: <<singular, plural>>
    cache,     \* the unit's cache slots: slot -> optional boolean
    last,      \* the last call: arguments, cache before it, result, probes
    text,      \* strip_string: the text first passed in
    passes,    \* strip_string: the results of the successive passes
    formatted, \* strip_format: its result on text, once called
    pc,        \* concurrent should_ignore: where each evaluation is
    local,     \* concurrent should_ignore: the variable result of each
    returned   \* concurrent should_ignore: what each returned

vars == <<unit, sources, cache, last, text, passes, formatted, pc, local,
          returned>>

stripVars == <<text, passes, formatted>>

raceVars == <<pc, local, returned>>

NoCall ==
    [op |-> "none", source |-> <<>>, target |-> <<>>, slot |-> 0,
     before |-> [k \in Slots |-> None], ret |-> FALSE, gets |-> 0,
     sets |-> 0, strips |-> 0]

EmptyCache == [k \in Slots |-> None]

(***************************************************************************)
(* Sequential calls on one unit                                            *)
(***************************************************************************)
Init ==
    /\ unit \in Units
    /\ sources \in Sources \X PluralSources
    /\ cache = EmptyCache
    /\ last = NoCall
    /\ text = <<>>
    /\ passes = <<>>
    /\ formatted = None
    /\ pc = <<>>
    /\ local = <<>>
    /\ returned = <<>>

\* a call of should_ignore(source, unit, cache_slot)
ShouldIgnore(source, cache_slot) ==
    \E r \in {should_ignore(source, unit, cache, cache_slot)} :
        /\ cache' = r.cache
        /\ last' = [op |-> "should_ignore", source |-> source,
                    target |-> <<>>, slot |-> cache_slot, before |-> cache,
                    ret |-> r.ret, gets |-> r.gets, sets |-> r.sets,
                    strips |-> r.strips]
        /\ UNCHANGED <<unit, sources, stripVars, raceVars>>

\* a call of check_single(source, target, unit, cache_slot)
CheckSingle(source, target, cache_slot) ==
    \E r \in {check_single(source, target, unit, cache, cache_slot)} :
        /\ cache' = r.cache
        /\ last' = [op |-> "check_single", source |-> source,
                    target |-> target, slot |-> cache_slot, before |-> cache,
                    ret |-> r.ret, gets |-> r.gets, sets |-> r.sets,
                    strips |-> r.strips]
        /\ UNCHANGED <<unit, sources, stripVars, raceVars>>

Next ==
    \/ \E i \in 1..2, k \in Slots : ShouldIgnore(sources[i], k)
    \/ \E i \in 1..2, k \in Slots :
           \E t \in Targets(sources[i]) : CheckSingle(sources[i], t, k)

Spec == Init /\ [][Next]_vars

(***************************************************************************)
(* The stripping pipeline called on its own                                *)
(***************************************************************************)
InitStrip ==
    /\ unit \in {u \in Units : u.language = "fr"}
    /\ text \in StripTexts
    /\ passes = <<>>
    /\ formatted = None
    /\ sources = <<>>
    /\ cache = EmptyCache
    /\ last = NoCall
    /\ pc = <<>>
    /\ local = <<>>
    /\ returned = <<>>

\* a call of strip_format(text, unit.flags)
StripFormat ==
    /\ formatted = None
    /\ formatted' = {strip_format(text, unit.flags)}
    /\ UNCHANGED <<unit, sources, cache, last, text, passes, raceVars>>

\* a call of strip_string, on text and then on what the call before returned
StripString ==
    /\ Len(passes) < MaxPasses
    /\ passes' = Append(passes,
                        strip_string(IF passes = <<>> THEN text
                                     ELSE passes[Len(passes)],
                                     unit.flags))
    /\ UNCHANGED <<unit, sources, cache, last, text, formatted, raceVars>>

NextStrip == StripFormat \/ StripString

SpecStrip == InitStrip /\ [][NextStrip]_vars

(***************************************************************************)
(* Concurrent evaluations of should_ignore on one empty slot, for the same *)
(* unit and source.  The interpreter runs one evaluation at a time and may *)
(* switch between get_cache, set_cache and the return.                     *)
(***************************************************************************)
\* the slot the evaluations share
SharedSlot == 0

InitRace ==
    /\ unit \in Units
    /\ sources \in {<<x>> : x \in Sources}
    /\ cache = EmptyCache
    /\ pc = [t \in Threads |-> "get"]
    /\ local = [t \in Threads |-> None]
    /\ returned = [t \in Threads |-> None]
    /\ last = NoCall
    /\ text = <<>>
    /\ passes = <<>>
    /\ formatted = None

\* lines 283-285: result = get_cache(...); return it unless it is None
Get(t) ==
    /\ pc[t] = "get"
    /\ local' = [local EXCEPT ![t] = get_cache(cache, SharedSlot)]
    /\ pc' = [pc EXCEPT ![t] = IF local'[t] # None THEN "return" ELSE "set"]
    /\ UNCHANGED <<unit, sources, cache, last, stripVars, returned>>

\* lines 288-309: compute the result and store it
Set(t) ==
    /\ pc[t] = "set"
    /\ \E d \in {IgnoreDecision(sources[1], unit.flags)} :
           /\ local' = [local EXCEPT ![t] = Some(d.result)]
           /\ cache' = set_cache(cache, d.result, SharedSlot)
    /\ pc' = [pc EXCEPT ![t] = "return"]
    /\ UNCHANGED <<unit, sources, last, stripVars, returned>>

\* lines 285 and 311: return result
Return(t) ==
    /\ pc[t] = "return"
    /\ returned' = [returned EXCEPT ![t] = local[t]]
    /\ pc' = [pc EXCEPT ![t] = "done"]
    /\ UNCHANGED <<unit, sources, cache, last, stripVars, local>>

NextRace == \E t \in Threads : Get(t) \/ Set(t) \/ Return(t)

SpecRace == InitRace /\ [][NextRace]_vars

(***************************************************************************)
(* Properties                                                              *)
(***************************************************************************)
\* the value the slot of the last call held before the call
SlotBefore == last.before[last.slot]

\* the first three tests of check_single on the last call
English == unit.language = "en"

BothShort == Len(last.source) <= 1 /\ Len(last.target) <= 1

BothUpper == IsUpper(last.source) /\ IsUpper(last.target)

\* what should_ignore returns for the last call's source, unit and slot
IgnoredBefore ==
    IF SlotBefore # None THEN ValueOf(SlotBefore)
    ELSE Uncached(last.source, unit.flags)

\* C1: check_single returns true exactly when the unit is not English, not
\* both strings are at most one character long, not both are upper case,
\* should_ignore is false, and source equals target character by character.
C1_CheckSingleResult ==
    last.op = "check_single" =>
        last.ret = (/\ ~English
                    /\ ~BothShort
                    /\ ~BothUpper
                    /\ ~IgnoredBefore
                    /\ last.source = last.target)

\* a check_single call that no short-circuit stops and that flags the pair
C1_Witness ==
    /\ last.op = "check_single"
    /\ ~English /\ ~BothShort /\ ~BothUpper /\ ~IgnoredBefore
    /\ last.source = last.target
    /\ last.ret

\* C2: called on an empty slot, should_ignore returns true exactly when a
\* special case holds or the stripped lower-cased source is empty or a
\* blacklist entry, and the slot holds the returned value afterwards.
C2_EmptySlotResult ==
    (last.op = "should_ignore" /\ SlotBefore = None) =>
        /\ last.ret = Uncached(last.source, unit.flags)
        /\ cache[last.slot] = Some(last.ret)

\* should_ignore on an empty slot returns true for a blacklisted word
C2_Witness ==
    /\ last.op = "should_ignore"
    /\ SlotBefore = None
    /\ last.source = Web
    /\ last.ret
    /\ cache[last.slot] = Some(TRUE)

\* C3: should_ignore returns true for every source that is numeric or
\* punctuation only or that holds a copyright notice or sign, whatever the
\* unit and the cache slot.
C3_SpecialAlwaysIgnored ==
    (last.op = "should_ignore" /\ SpecialCase(last.source)) => last.ret

\* C4: when the slot holds a boolean, should_ignore returns it, runs neither
\* the special-case tests nor strip_string and leaves the cache as it was;
\* the second of two consecutive calls on a slot returns what the first
\* returned, without running strip_string.
C4_Memoized ==
    /\ []((last.op = "should_ignore" /\ SlotBefore # None) =>
            /\ last.ret = ValueOf(SlotBefore)
            /\ last.strips = 0
            /\ last.sets = 0
            /\ cache = last.before)
    /\ [][(/\ last.op = "should_ignore"
           /\ last'.op = "should_ignore"
           /\ last'.slot = last.slot) =>
              (last'.ret = last.ret /\ last'.strips = 0)]_vars

\* should_ignore called on a slot that holds a value computed from another
\* source, which strip_string would have run on
C4_Witness ==
    /\ last.op = "should_ignore"
    /\ SlotBefore # None
    /\ ~SpecialCase(last.source)
    /\ last.ret # Uncached(last.source, unit.flags)

\* C5: every should_ignore call on slots that started empty returns what an
\* uncached computation from its own source and unit flags returns.
C5_CacheTransparent ==
    last.op = "should_ignore" => last.ret = Uncached(last.source, unit.flags)

\* C10: check_single stopped by one of its first three tests neither reads
\* nor writes the cache; the cache changes only in should_ignore, only in the
\* slot of the call and only when that slot was empty; a slot that holds a
\* value keeps it.
C10_Frame ==
    /\ []((last.op = "check_single" /\ (English \/ BothShort \/ BothUpper))
            => (last.gets = 0 /\ last.sets = 0 /\ cache = last.before))
    /\ [](cache # last.before =>
            /\ last.gets = 1
            /\ last.sets = 1
            /\ SlotBefore = None
            /\ \A k \in Slots \ {last.slot} : cache[k] = last.before[k])
    /\ [][\A k \in Slots : cache[k] # None => cache'[k] = cache[k]]_vars

\* check_single stopped by the upper-case test on a slot that is still empty
C10_Witness ==
    /\ last.op = "check_single"
    /\ ~English /\ ~BothShort /\ BothUpper
    /\ last.source = SAVE
    /\ cache[last.slot] = None
    /\ last.gets = 0

\* C6: the residue of 'visit http://example.com today' with no format flag
\* is 'visit  today', should_ignore is false for it and check_single flags
\* the pair of it with itself in a French unit.
C6_UrlRemovedInsideText ==
    (text = Visit /\ unit.flags = {} /\ passes # <<>>) =>
        /\ passes[1] = VisitResidue
        /\ ~IgnoreDecision(Visit, {}).result
        /\ check_single(Visit, Visit, unit, EmptyCache, 0).ret

\* C7: strip_string applied to its own result returns that result.
C7_StripIdempotent == Len(passes) >= 2 => passes[2] = passes[1]

\* C8: strip_format removes the matches of the python pattern when
\* python-format is a flag, else of the php pattern when php-format is,
\* else of the c pattern when c-format is, and returns the text unchanged
\* with none of them; strip_string strips the format first, so its result is
\* that of the later steps on the result of strip_format.
C8_FormatPriority ==
    /\ formatted # None =>
        /\ "python-format" \in unit.flags =>
               ValueOf(formatted) = RemoveAll(PYTHON_PRINTF_MATCH, text)
        /\ ("php-format" \in unit.flags
               /\ "python-format" \notin unit.flags) =>
               ValueOf(formatted) = RemoveAll(PHP_PRINTF_MATCH, text)
        /\ unit.flags = {"c-format"} =>
               ValueOf(formatted) = RemoveAll(C_PRINTF_MATCH, text)
        /\ unit.flags = {} => ValueOf(formatted) = text
    /\ passes # <<>> =>
           passes[1] = strip_string(strip_format(text, unit.flags), {})

\* strip_format on a unit with all three flags and a text in which the
\* python, php and c patterns match differently
C8_Witness ==
    /\ formatted # None
    /\ unit.flags = FormatFlags
    /\ text = PhpPosition
    /\ ValueOf(formatted) = RemoveAll(PYTHON_PRINTF_MATCH, text)
    /\ ValueOf(formatted) # RemoveAll(PHP_PRINTF_MATCH, text)
    /\ RemoveAll(PHP_PRINTF_MATCH, text) = <<>>

\* C9: whatever the interleaving, every evaluation that stores a value
\* stores the uncached result, every evaluation returns it, and the slot
\* holds it at the end.
C9_BenignRace ==
    \A t \in Threads :
        /\ local[t] # None =>
               local[t] = Some(Uncached(sources[1], unit.flags))
        /\ returned[t] # None =>
               returned[t] = Some(Uncached(sources[1], unit.flags))
        /\ (\A u \in Threads : pc[u] = "done") =>
               cache[SharedSlot] = Some(Uncached(sources[1], unit.flags))
        /\ cache[SharedSlot] # None =>
               cache[SharedSlot] = Some(Uncached(sources[1], unit.flags))

\* one evaluation has stored its result and returned it while another,
\* which found the slot empty before that, is about to store its own
C9_Witness ==
    /\ sources[1] = Web
    /\ cache[SharedSlot] = Some(TRUE)
    /\ \E t, u \in Threads :
           /\ pc[t] = "done"
           /\ returned[t] = Some(TRUE)
           /\ pc[u] = "set"
           /\ local[u] = None

====
